---- MODULE Spec2Model ----
(***************************************************************************)
(* Model of config.py of the job board: the JSON settings store           *)
(* (load_json_file, save_json_file, load/save of keywords and locations)   *)
(* and the word-boundary location matcher                                  *)
(* matches_location_word_boundary.                                         *)
(*                                                                         *)
(* Strings are sequences of one-character strings.  Python values are      *)
(* records [tag, v]: tag is the Python type, v the payload (the characters *)
(* of a str, the items of a list, the <<key, value>> pairs of a dict).     *)
(***************************************************************************)
EXTENDS Integers, Sequences, FiniteSets, TLC

VARIABLES
    text,               \* the matcher call's text argument
    allowed_locations,  \* the matcher call's allowed_locations argument
    result,             \* what the last call returned or raised
    last,               \* the name of the last operation
    files,              \* the files on disk: locations, companies, keywords
    default_locations,  \* the contents of the list object DEFAULT_LOCATIONS['allowed']
    default_keywords,   \* the contents of the list object DEFAULT_KEYWORDS
    held,               \* the value the caller keeps from its last load
    mutations           \* how many in-place changes the caller has made

vars == <<text, allowed_locations, result, last, files, default_locations,
          default_keywords, held, mutations>>

(* ------------------------------------------------------------------ *)
(* Bounds of the model                                                  *)
(* ------------------------------------------------------------------ *)

\* longest text enumerated exhaustively over Chars
MaxTextLen == 4
\* longest term enumerated exhaustively over Chars
MaxTermLen == 2
\* longest allow-list built from ListTerms
MaxListLen == 2
\* how many in-place changes the caller makes to loaded values
MaxMutations == 1

(* ------------------------------------------------------------------ *)
(* Characters and strings                                               *)
(* ------------------------------------------------------------------ *)

Uppers == <<"A", "B", "C", "D", "E", "F", "G", "H", "I", "J", "K", "L", "M",
            "N", "O", "P", "Q", "R", "S", "T", "U", "V", "W", "X", "Y", "Z">>

Lowers == <<"a", "b", "c", "d", "e", "f", "g", "h", "i", "j", "k", "l", "m",
            "n", "o", "p", "q", "r", "s", "t", "u", "v", "w", "x", "y", "z">>

Digits == {"0", "1", "2", "3", "4", "5", "6", "7", "8", "9"}

Range(s) == {s[i] : i \in DOMAIN s}

UpperSet == Range(Uppers)
LowerSet == Range(Lowers)

\* the characters the pattern language's \w class accepts
WordChars == UpperSet \cup LowerSet \cup Digits \cup {"_"}

IsWordChar(c) == c \in WordChars

LowerOf == [c \in UpperSet |-> Lowers[CHOOSE i \in DOMAIN Uppers : Uppers[i] = c]]

\* str.lower() on one character
LowerChar(c) == IF c \in UpperSet THEN LowerOf[c] ELSE c

\* str.lower()
StrLower(s) == [i \in DOMAIN s |-> LowerChar(s[i])]

(* ------------------------------------------------------------------ *)
(* Python values                                                        *)
(* ------------------------------------------------------------------ *)

PyNone == [tag |-> "None", v |-> <<>>]
PyStr(s) == [tag |-> "str", v |-> s]
PyList(items) == [tag |-> "list", v |-> items]
PyDict(pairs) == [tag |-> "dict", v |-> pairs]
PyInt == [tag |-> "int", v |-> <<>>]
PyBool(b) == [tag |-> "bool", v |-> <<b>>]
\* a reference to a mutable object shared with the module (not a copy of it)
PyRef(name) == [tag |-> "ref", v |-> <<name>>]

\* what a call gives back: a returned value or a raised exception
Returned(x) == [exc |-> "none", ret |-> x]
Raised(e) == [exc |-> e, ret |-> PyNone]
NotCalled == [exc |-> "not called", ret |-> PyNone]

(* ------------------------------------------------------------------ *)
(* Module constants of config.py                                        *)
(* ------------------------------------------------------------------ *)

DEFAULT_KEYWORDS ==
    << <<"d", "e", "v", "o", "p", "s">>,
       <<"s", "r", "e">>,
       <<"s", "i", "t", "e", " ", "r", "e", "l", "i", "a", "b", "i", "l", "i", "t", "y">>,
       <<"p", "l", "a", "t", "f", "o", "r", "m", " ", "e", "n", "g", "i", "n", "e", "e", "r">>,
       <<"i", "n", "f", "r", "a", "s", "t", "r", "u", "c", "t", "u", "r", "e">>,
       <<"c", "l", "o", "u", "d", " ", "e", "n", "g", "i", "n", "e", "e", "r">>,
       <<"d", "e", "v", "s", "e", "c", "o", "p", "s">>,
       <<"k", "u", "b", "e", "r", "n", "e", "t", "e", "s">>,
       <<"t", "e", "r", "r", "a", "f", "o", "r", "m">> >>

\* the list DEFAULT_LOCATIONS['allowed'] as written in the source
DEFAULT_LOCATIONS_allowed ==
    << <<"u", "n", "i", "t", "e", "d", " ", "s", "t", "a", "t", "e", "s">>,
       <<"u", "s", "a">>,
       <<"u", ".", "s", ".">>,
       <<"a", "m", "e", "r", "i", "c", "a">>,
       <<"c", "a", "n", "a", "d", "a">>,
       <<"n", "o", "r", "t", "h", " ", "a", "m", "e", "r", "i", "c", "a">>,
       <<"a", "m", "e", "r", "i", "c", "a", "s">>,
       <<"u", "s", "/", "c", "a", "n", "a", "d", "a">>,
       <<"r", "e", "m", "o", "t", "e">>,
       <<"w", "o", "r", "l", "d", "w", "i", "d", "e">>,
       <<"g", "l", "o", "b", "a", "l">>,
       <<"a", "n", "y", "w", "h", "e", "r", "e">> >>

(* ------------------------------------------------------------------ *)
(* The pattern library calls the matcher makes: re.escape, re.search    *)
(* ------------------------------------------------------------------ *)

\* the characters re.escape puts a backslash before
SpecialChars == {"(", ")", "[", "]", "{", "}", "?", "*", "+", "-", "|",
                 "^", "$", "\\", ".", "&", "~", "#", " "}

\* a slip of re_escape: the term is used as a pattern as it stands
re_escape_unescaped(s) == s

RECURSIVE re_escape(_)
\* re.escape(s): every special character gets a backslash before it
re_escape(s) ==
    IF s = <<>> THEN <<>>
    ELSE (IF Head(s) \in SpecialChars THEN <<"\\", Head(s)>> ELSE <<Head(s)>>)
         \o re_escape(Tail(s))

RECURSIVE sre_parse(_)
\* the pattern compiler on the patterns the matcher builds: \b is the
\* word-boundary assertion, a backslash before any other character makes it
\* a literal, an unescaped dot is any character, every other character is
\* a literal of itself
sre_parse(p) ==
    IF p = <<>> THEN <<>>
    ELSE IF Head(p) = "\\" /\ Len(p) >= 2
         THEN (IF p[2] = "b"
               THEN <<[op |-> "AT_BOUNDARY", c |-> ""]>>
               ELSE <<[op |-> "LITERAL", c |-> p[2]]>>)
              \o sre_parse(SubSeq(p, 3, Len(p)))
         ELSE (IF Head(p) = "."
               THEN <<[op |-> "ANY", c |-> ""]>>
               ELSE <<[op |-> "LITERAL", c |-> Head(p)]>>)
              \o sre_parse(Tail(p))

\* \b holds between position pos and pos + 1 of s (pos characters consumed):
\* exactly one of the two neighbours is a word character, the outside of the
\* string counting as a non-word character
AtBoundary(s, pos) ==
    LET before == pos >= 1 /\ IsWordChar(s[pos])
        after == pos < Len(s) /\ IsWordChar(s[pos + 1])
    IN before # after

RECURSIVE sre_match(_, _, _)
\* the compiled pattern nodes match s from position pos on
sre_match(nodes, s, pos) ==
    IF nodes = <<>> THEN TRUE
    ELSE LET n == Head(nodes) IN
         CASE n.op = "AT_BOUNDARY" ->
                AtBoundary(s, pos) /\ sre_match(Tail(nodes), s, pos)
           [] n.op = "LITERAL" ->
                pos < Len(s) /\ s[pos + 1] = n.c /\ sre_match(Tail(nodes), s, pos + 1)
           [] n.op = "ANY" ->
                pos < Len(s) /\ s[pos + 1] # "\n" /\ sre_match(Tail(nodes), s, pos + 1)

\* re.search(pattern, s) finds a match starting somewhere in s
re_search(pattern, s) ==
    LET nodes == sre_parse(pattern) IN
    \E pos \in 0..Len(s) : sre_match(nodes, s, pos)

(* ------------------------------------------------------------------ *)
(* matches_location_word_boundary                                       *)
(* ------------------------------------------------------------------ *)

\* slips of TermPattern: the term is not lowercased; the closing \b is left out
TermPatternNoLower(term) == <<"\\", "b">> \o re_escape(term) \o <<"\\", "b">>
TermPatternNoClosingBoundary(term) == <<"\\", "b">> \o re_escape(StrLower(term))

\* r'\b' + re.escape(term.lower()) + r'\b'
TermPattern(term) == <<"\\", "b">> \o re_escape(StrLower(term)) \o <<"\\", "b">>

RECURSIVE MatchLoop(_, _, _)
\* the for loop over allowed_locations from item i on: True at the first
\* term whose pattern is found in text_lower, False when the list is exhausted
MatchLoop(terms, i, text_lower) ==
    IF i > Len(terms) THEN FALSE
    ELSE IF re_search(TermPattern(terms[i]), text_lower) THEN TRUE
    ELSE MatchLoop(terms, i + 1, text_lower)

\* slips of EffectiveAllowList: an empty list is replaced by the default too;
\* an omitted list is taken as an empty one
EffectiveAllowListIfFalsy(allowed, defaults) ==
    IF allowed.tag = "None" \/ allowed.v = <<>> THEN defaults ELSE allowed.v
EffectiveAllowListNoDefault(allowed, defaults) ==
    IF allowed.tag = "None" THEN <<>> ELSE allowed.v

\* if allowed_locations is None: allowed_locations = DEFAULT_LOCATIONS['allowed']
EffectiveAllowList(allowed, defaults) ==
    IF allowed.tag = "None" THEN defaults ELSE allowed.v

\* the whole function; defaults is the list DEFAULT_LOCATIONS['allowed'] holds
\* at the time of the call. text.lower() raises AttributeError on None.
matches_location_word_boundary(txt, allowed, defaults) ==
    LET terms == EffectiveAllowList(allowed, defaults) IN
    IF txt.tag # "str" THEN Raised("AttributeError")
    ELSE Returned(PyBool(MatchLoop(terms, 1, StrLower(txt.v))))

(* ------------------------------------------------------------------ *)
(* JSON files                                                           *)
(* ------------------------------------------------------------------ *)

\* a file is absent, holds text that is no JSON ("garbage"), or holds a
\* JSON document: an object (its <<key, value>> pairs), an array (of
\* strings), a string, a number or null
FileAbsent == [tag |-> "absent", v |-> <<>>]
FileGarbage == [tag |-> "garbage", v |-> <<>>]
JsonObject(pairs) == [tag |-> "object", v |-> pairs]
JsonArray(items) == [tag |-> "array", v |-> items]
JsonNull == [tag |-> "null", v |-> <<>>]
JsonNumber == [tag |-> "number", v |-> <<>>]

RECURSIVE json_load(_)
\* json.load: the Python value of a JSON document
json_load(doc) ==
    CASE doc.tag = "object" ->
           PyDict([i \in DOMAIN doc.v |-> <<doc.v[i][1], json_load(doc.v[i][2])>>])
      [] doc.tag = "array" -> PyList(doc.v)
      [] doc.tag = "string" -> PyStr(doc.v)
      [] doc.tag = "number" -> PyInt
      [] doc.tag = "null" -> PyNone

RECURSIVE json_dump(_, _)
\* json.dump: the JSON document of a Python value; a reference is followed
\* to the list it refers to, whose contents are shared
json_dump(x, shared) ==
    CASE x.tag = "dict" ->
           JsonObject([i \in DOMAIN x.v |-> <<x.v[i][1], json_dump(x.v[i][2], shared)>>])
      [] x.tag = "list" -> JsonArray(x.v)
      [] x.tag = "ref" -> JsonArray(shared)
      [] x.tag = "str" -> [tag |-> "string", v |-> x.v]
      [] x.tag = "int" -> JsonNumber
      [] x.tag = "None" -> JsonNull

\* bool(x) as the if statements take it
Truthy(x) ==
    CASE x.tag \in {"dict", "list", "str"} -> x.v # <<>>
      [] x.tag = "None" -> FALSE
      [] OTHER -> TRUE

\* key in d, for a dict d
DictHas(d, key) == \E i \in DOMAIN d.v : d.v[i][1] = key

\* d[key], for a dict d that has the key
DictGet(d, key) == d.v[CHOOSE i \in DOMAIN d.v : d.v[i][1] = key][2]

\* load_json_file(filepath, default)
load_json_file(file, default) ==
    IF file.tag \notin {"absent", "garbage"}
    THEN json_load(file)
    ELSE IF default.tag # "None" THEN default ELSE PyDict(<<>>)


(* ------------------------------------------------------------------ *)
(* The settings store                                                   *)
(* ------------------------------------------------------------------ *)

\* the dict DEFAULT_LOCATIONS: its 'allowed' entry refers to the list object
DEFAULT_LOCATIONS == PyDict(<< <<"allowed", PyRef("DEFAULT_LOCATIONS.allowed")>> >>)

\* dict.copy(): a new dict with the same values, references included
DictCopy(d) == PyDict(d.v)

\* list.copy(): a new list with the contents of the list object
ListCopy(contents) == PyList(contents)

LocationsKey == <<"l", "o", "c", "a", "t", "i", "o", "n", "s">>

\* s occurs in t as a contiguous run of characters
IsSubstring(s, t) ==
    \E p \in 0..(Len(t) - Len(s)) : \A i \in 1..Len(s) : t[p + i] = s[i]

\* load_companies()
load_companies(fs) == load_json_file(fs.companies, PyDict(<<>>))

\* the fall-back of load_locations on companies.json:
\*   if 'locations' in companies:
\*       return {'allowed': companies['locations'].get('allowed', [])}
\*   return DEFAULT_LOCATIONS.copy()
CompaniesFallback(fs) ==
    LET companies == load_companies(fs) IN
    CASE companies.tag = "dict" ->
           IF DictHas(companies, "locations")
           THEN LET loc == DictGet(companies, "locations") IN
                IF loc.tag = "dict"
                THEN Returned(PyDict(<< <<"allowed",
                        IF DictHas(loc, "allowed") THEN DictGet(loc, "allowed")
                        ELSE PyList(<<>>)>> >>))
                ELSE Raised("AttributeError")
           ELSE Returned(DictCopy(DEFAULT_LOCATIONS))
      [] companies.tag = "list" ->
           IF \E i \in DOMAIN companies.v : companies.v[i] = LocationsKey
           THEN Raised("TypeError")
           ELSE Returned(DictCopy(DEFAULT_LOCATIONS))
      [] companies.tag = "str" ->
           IF IsSubstring(LocationsKey, companies.v)
           THEN Raised("TypeError")
           ELSE Returned(DictCopy(DEFAULT_LOCATIONS))
      [] OTHER -> Raised("TypeError")

\* a slip of load_locations: companies.json is never consulted
load_locations_no_companies(fs) ==
    LET data == load_json_file(fs.locations, PyNone) IN
    IF Truthy(data) /\ data.tag = "dict" /\ DictHas(data, "allowed")
    THEN Returned(PyDict(<< <<"allowed", DictGet(data, "allowed")>> >>))
    ELSE Returned(DictCopy(DEFAULT_LOCATIONS))

\* load_locations()
load_locations(fs) ==
    LET data == load_json_file(fs.locations, PyNone) IN
    IF Truthy(data) /\ data.tag = "dict" /\ DictHas(data, "allowed")
    THEN Returned(PyDict(<< <<"allowed", DictGet(data, "allowed")>> >>))
    ELSE CompaniesFallback(fs)

\* load_keywords(), with the contents of DEFAULT_KEYWORDS at the time
load_keywords(fs, defaults) ==
    LET keywords == load_json_file(fs.keywords, PyNone) IN
    IF Truthy(keywords) /\ keywords.tag = "list"
    THEN Returned(keywords)
    ELSE Returned(ListCopy(defaults))

\* save_json_file(filepath, data): the file now holds the dump of data
save_json_file(fs, name, data, shared) ==
    [fs EXCEPT ![name] = json_dump(data, shared)]

(* ------------------------------------------------------------------ *)
(* Inputs                                                               *)
(* ------------------------------------------------------------------ *)

SeqsUpTo(S, n) == UNION {[1..k -> S] : k \in 0..n}

\* characters of the exhaustively enumerated strings: a letter in both
\* cases, a pattern metacharacter and the space
Chars == {"a", "A", ".", " "}

SampleTexts ==
    { <<"a", "u", "s", "t", "r", "a", "l", "i", "a">>,
      <<"R", "e", "m", "o", "t", "e", " ", "-", " ", "U", "S", "A", " ", "o", "n", "l", "y">>,
      <<"R", "E", "M", "O", "T", "E">>,
      <<"R", "e", "m", "o", "t", "e">>,
      <<"a", "n", "y", "t", "h", "i", "n", "g">>,
      <<"C", "+", "+", " ", "j", "o", "b", "s", " ", "(", "r", "e", "m", "o", "t", "e", ")">>,
      <<"O", "p", "e", "n", " ", "t", "o", " ", "N", "o", "r", "t", "h", " ", "A", "m", "e", "r", "i", "c", "a", " ", "a", "p", "p", "l", "i", "c", "a", "n", "t", "s">>,
      <<"N", "o", "r", "t", "h", " ", "A", "m", "e", "r", "i", "c", "a", "n", " ", "a", "p", "p", "l", "i", "c", "a", "n", "t", "s">>,
      <<"R", "e", "m", "o", "t", "e", " ", "(", "W", "o", "r", "l", "d", "w", "i", "d", "e", ")">>,
      <<"U", ".", "S", ".", " ", "o", "n", "l", "y">>,
      <<"U", ".", "S", ".", "A">>,
      <<"u", "s", "_", "1">>,
      <<"u", "s", "a", "2">> }

SampleTerms ==
    { <<"u", "s", "a">>,
      <<"u", ".", "s", ".">>,
      <<"u", "s">>,
      <<"r", "e", "m", "o", "t", "e">>,
      <<"R", "E", "M", "O", "T", "E">>,
      <<"n", "o", "r", "t", "h", " ", "a", "m", "e", "r", "i", "c", "a">>,
      <<"u", "s", "/", "c", "a", "n", "a", "d", "a">>,
      <<"a", " ", "a">>,
      <<"A", " ", "a">> }

\* the terms of the allow-lists of several terms
ListTerms == { <<"c", "a", "n", "a", "d", "a">>, <<"u", "s", "a">>, <<".">> }

Texts == {PyStr(s) : s \in SeqsUpTo(Chars, MaxTextLen) \cup SampleTexts} \cup {PyNone}

Terms == SeqsUpTo(Chars, MaxTermLen) \cup SampleTerms

AllowLists ==
    {PyNone} \cup {PyList(<<t>>) : t \in Terms}
             \cup {PyList(l) : l \in SeqsUpTo(ListTerms, MaxListLen)}

\* what the files hold when the process starts
InitialLocationsFiles ==
    { FileAbsent, FileGarbage, JsonNull,
      JsonObject(<<>>),
      JsonObject(<< <<"allowed", JsonArray(<< <<"u", "s", "a">> >>)>> >>),
      JsonObject(<< <<"allowed", JsonNull>> >>),
      JsonObject(<< <<"other", JsonArray(<< <<"u", "s", "a">> >>)>> >>),
      JsonArray(<< <<"a", "l", "l", "o", "w", "e", "d">> >>) }

InitialCompaniesFiles ==
    { FileAbsent, FileGarbage, JsonNull,
      JsonObject(<< <<"locations",
          JsonObject(<< <<"allowed", JsonArray(<< <<"c", "a", "n", "a", "d", "a">> >>)>> >>)>> >>),
      JsonObject(<< <<"locations", JsonObject(<<>>)>> >>),
      JsonObject(<< <<"other", JsonNull>> >>),
      JsonObject(<< <<"locations", JsonArray(<< <<"a", "l", "l", "o", "w", "e", "d">> >>)>> >>),
      JsonArray(<< LocationsKey >>) }

InitialKeywordsFiles == { FileAbsent }

\* what the caller saves, besides a value it loaded before
SaveLocationsInputs ==
    { PyDict(<< <<"allowed", PyList(<< <<"r", "e", "m", "o", "t", "e">> >>)>> >>) }

SaveKeywordsInputs == { PyList(<< <<"s", "r", "e">> >>) }

\* the terms the caller appends to a list it loaded
MutationTerms == { <<"a", "u", "s", "t", "r", "a", "l", "i", "a">> }

\* the texts of the matcher calls made between store operations
StoreTexts ==
    { PyStr(<<"a", "u", "s", "t", "r", "a", "l", "i", "a">>),
      PyStr(<<"R", "e", "m", "o", "t", "e", " ", "(", "W", "o", "r", "l", "d", "w", "i", "d", "e", ")">>) }

(* ------------------------------------------------------------------ *)
(* The caller's view of the value it holds                              *)
(* ------------------------------------------------------------------ *)

\* the list the held value gives access to: the loaded list itself, or the
\* 'allowed' entry of a loaded dict
HeldEntry ==
    IF held.tag = "dict" /\ DictHas(held, "allowed") THEN DictGet(held, "allowed")
    ELSE held

HeldIsList == HeldEntry.tag \in {"list", "ref"}

\* the items of that list; a reference reads the shared list object
HeldItems == IF HeldEntry.tag = "ref" THEN default_locations ELSE HeldEntry.v

\* the list is changed in place: through a reference the shared object
\* changes, otherwise the caller's own list does
HeldListBecomes(items) ==
    IF HeldEntry.tag = "ref"
    THEN /\ default_locations' = items
         /\ held' = held
    ELSE /\ default_locations' = default_locations
         /\ held' = IF held.tag = "dict"
                    THEN PyDict(<< <<"allowed", PyList(items)>> >>)
                    ELSE PyList(items)

(* ------------------------------------------------------------------ *)
(* Operations                                                           *)
(* ------------------------------------------------------------------ *)

\* text and allowed_locations are the arguments of a matcher call: outside
\* one there are none
NoMatcherCall == text' = PyNone /\ allowed_locations' = PyNone

\* the caller calls load_locations() and keeps what it returns
LoadLocations ==
    /\ result' = load_locations(files)
    /\ held' = IF result'.exc = "none" THEN result'.ret ELSE held
    /\ last' = "load_locations"
    /\ NoMatcherCall
    /\ UNCHANGED <<files, default_locations, default_keywords, mutations>>

\* the caller calls save_locations(locations)
SaveLocations ==
    \E locations \in SaveLocationsInputs \cup (IF held.tag = "dict" THEN {held} ELSE {}) :
        /\ files' = save_json_file(files, "locations", locations, default_locations)
        /\ result' = Returned(PyNone)
        /\ last' = "save_locations"
        /\ NoMatcherCall
        /\ UNCHANGED <<default_locations, default_keywords, held, mutations>>

\* the caller calls load_keywords() and keeps what it returns
LoadKeywords ==
    /\ result' = load_keywords(files, default_keywords)
    /\ held' = result'.ret
    /\ last' = "load_keywords"
    /\ NoMatcherCall
    /\ UNCHANGED <<files, default_locations, default_keywords, mutations>>

\* the caller calls save_keywords(keywords)
SaveKeywords ==
    \E keywords \in SaveKeywordsInputs \cup (IF held.tag = "list" THEN {held} ELSE {}) :
        /\ files' = save_json_file(files, "keywords", keywords, default_locations)
        /\ result' = Returned(PyNone)
        /\ last' = "save_keywords"
        /\ NoMatcherCall
        /\ UNCHANGED <<default_locations, default_keywords, held, mutations>>

\* the caller appends a term to the list it loaded
CallerAppends ==
    \E term \in MutationTerms :
        /\ HeldIsList
        /\ mutations < MaxMutations
        /\ HeldListBecomes(Append(HeldItems, term))
        /\ mutations' = mutations + 1
        /\ result' = Returned(PyNone)
        /\ last' = "append"
        /\ NoMatcherCall
        /\ UNCHANGED <<files, default_keywords>>

\* the caller clears the list it loaded
CallerClears ==
    /\ HeldIsList
    /\ mutations < MaxMutations
    /\ HeldListBecomes(<<>>)
    /\ mutations' = mutations + 1
    /\ result' = Returned(PyNone)
    /\ last' = "clear"
    /\ NoMatcherCall
    /\ UNCHANGED <<files, default_keywords>>

\* the caller calls the matcher with the allow-list omitted
MatchWithDefault ==
    \E txt \in StoreTexts :
        /\ text' = txt
        /\ allowed_locations' = PyNone
        /\ result' = matches_location_word_boundary(txt, PyNone, default_locations)
        /\ last' = "matches_location_word_boundary"
        /\ UNCHANGED <<files, default_locations, default_keywords, held, mutations>>

\* the matcher is applied to the inputs drawn at the start
CallMatcher ==
    /\ last = "start"
    /\ result' = matches_location_word_boundary(text, allowed_locations, default_locations)
    /\ last' = "matches_location_word_boundary"
    /\ UNCHANGED <<text, allowed_locations, files, default_locations,
                   default_keywords, held, mutations>>

(* ------------------------------------------------------------------ *)
(* Specifications                                                       *)
(* ------------------------------------------------------------------ *)

\* the process after import: the module constants hold their literals
ModuleLoaded ==
    /\ default_locations = DEFAULT_LOCATIONS_allowed
    /\ default_keywords = DEFAULT_KEYWORDS
    /\ held = PyNone
    /\ mutations = 0
    /\ result = NotCalled
    /\ last = "start"

\* the store and its caller
Init ==
    /\ ModuleLoaded
    /\ text = PyNone
    /\ allowed_locations = PyNone
    /\ files \in [locations : InitialLocationsFiles,
                  companies : InitialCompaniesFiles,
                  keywords : InitialKeywordsFiles]

Next ==
    \/ LoadLocations
    \/ SaveLocations
    \/ LoadKeywords
    \/ SaveKeywords
    \/ CallerAppends
    \/ CallerClears
    \/ MatchWithDefault

Spec == Init /\ [][Next]_vars

\* the matcher as a pure function of inputs drawn at the start
MatcherInit ==
    /\ ModuleLoaded
    /\ text \in Texts
    /\ allowed_locations \in AllowLists
    /\ files = [locations |-> FileAbsent, companies |-> FileAbsent, keywords |-> FileAbsent]

MatcherNext == CallMatcher

MatcherSpec == MatcherInit /\ [][MatcherNext]_vars


(* ------------------------------------------------------------------ *)
(* Vocabulary of the properties                                         *)
(* ------------------------------------------------------------------ *)

MatcherDone == last = "matches_location_word_boundary"

ReturnedTrue == Returned(PyBool(TRUE))
ReturnedFalse == Returned(PyBool(FALSE))

\* t occurs in s right after its first p characters
OccursAt(t, s, p) ==
    /\ p + Len(t) <= Len(s)
    /\ \A i \in 1..Len(t) : s[p + i] = t[i]

\* the occurrence of a term of n characters after the first p characters of
\* s has a letter, digit or underscore right before it / right after it
WordCharBefore(s, p) == p >= 1 /\ IsWordChar(s[p])
WordCharAfter(s, p, n) == p + n < Len(s) /\ IsWordChar(s[p + n + 1])

\* s holds a standalone occurrence of t
StandaloneOccurrence(t, s) ==
    \E p \in 0..Len(s) :
        OccursAt(t, s, p) /\ ~WordCharBefore(s, p) /\ ~WordCharAfter(s, p, Len(t))

\* the call had a string text and an allow-list of exactly one term
SingleTermCall ==
    /\ MatcherDone
    /\ text.tag = "str"
    /\ allowed_locations.tag = "list"
    /\ Len(allowed_locations.v) = 1

\* words of letters, digits and underscores joined by single spaces, at
\* least two of them
IsPhrase(t) ==
    /\ Len(t) >= 3
    /\ \A i \in DOMAIN t : IsWordChar(t[i]) \/ t[i] = " "
    /\ IsWordChar(t[1]) /\ IsWordChar(t[Len(t)])
    /\ \E i \in DOMAIN t : t[i] = " "
    /\ \A i \in 1..(Len(t) - 1) : ~(t[i] = " " /\ t[i + 1] = " ")

UpperOf == [c \in LowerSet |-> Uppers[CHOOSE i \in DOMAIN Lowers : Lowers[i] = c]]
UpperChar(c) == IF c \in LowerSet THEN UpperOf[c] ELSE c
FlipCase(c) == IF c \in UpperSet THEN LowerChar(c) ELSE UpperChar(c)
FlipAt(s, i) == [s EXCEPT ![i] = FlipCase(s[i])]
StrUpper(s) == [i \in DOMAIN s |-> UpperChar(s[i])]

\* the texts and allow-lists that differ from the given one in letter case:
\* one character flipped, everything upper case, everything lower case
CaseVariantsOfText(s) ==
    {FlipAt(s, i) : i \in DOMAIN s} \cup {StrUpper(s), StrLower(s)}
CaseVariantsOfList(l) ==
    UNION {{[l EXCEPT ![k] = FlipAt(l[k], i)] : i \in DOMAIN l[k]} : k \in DOMAIN l}
       \cup {[k \in DOMAIN l |-> StrUpper(l[k])], [k \in DOMAIN l |-> StrLower(l[k])]}

TextRemoteWorldwide ==
    PyStr(<<"R", "e", "m", "o", "t", "e", " ", "(", "W", "o", "r", "l", "d", "w", "i", "d", "e", ")">>)

(* ------------------------------------------------------------------ *)
(* Properties                                                           *)
(* ------------------------------------------------------------------ *)

\* C1: if every occurrence of the lowercased term in the lowercased text has
\* a letter, digit or underscore right before or right after it, the matcher
\* returns false (for any term, also one that begins or ends with a non-word
\* character, and the empty one).
C1_EmbeddedTermNeverMatches ==
    SingleTermCall =>
        LET t == StrLower(allowed_locations.v[1])
            s == StrLower(text.v)
        IN (\A p \in 0..Len(s) :
                OccursAt(t, s, p) => WordCharBefore(s, p) \/ WordCharAfter(s, p, Len(t)))
           => result = ReturnedFalse

\* C2: if the lowercased text holds an occurrence of the non-empty lowercased
\* term with no word character right before it and none right after it, the
\* matcher returns true.
C2_StandaloneTermMatches ==
    (SingleTermCall /\ allowed_locations.v[1] # <<>>) =>
        (StandaloneOccurrence(StrLower(allowed_locations.v[1]), StrLower(text.v))
           => result = ReturnedTrue)

\* C3, as claimed: with the allow-list omitted or empty the result is that of
\* matching the text against the built-in default list.
C3_OmittedOrEmptyUsesDefault ==
    (MatcherDone /\ text.tag = "str"
       /\ (allowed_locations.tag = "None" \/ allowed_locations = PyList(<<>>)))
    => result = matches_location_word_boundary(
                    text, PyList(DEFAULT_LOCATIONS_allowed), <<>>)

\* C3, amended: with the allow-list omitted the result is that of matching
\* the text against the built-in default list; an explicitly empty
\* allow-list is not replaced by the default and matches nothing.
C3_OmittedUsesDefault ==
    (MatcherDone /\ text.tag = "str") =>
        /\ allowed_locations.tag = "None" =>
             result = matches_location_word_boundary(
                          text, PyList(DEFAULT_LOCATIONS_allowed), <<>>)
        /\ allowed_locations = PyList(<<>>) => result = ReturnedFalse

C3_Witness ==
    /\ MatcherDone
    /\ text = TextRemoteWorldwide
    /\ allowed_locations.tag = "None"
    /\ result = ReturnedTrue

\* C4: for every string text, the empty one included, the matcher called
\* with an explicitly empty allow-list returns false and raises nothing.
C4_EmptyAllowListIsFalse ==
    (MatcherDone /\ text.tag = "str" /\ allowed_locations = PyList(<<>>))
    => result = ReturnedFalse

C4_Witness ==
    /\ MatcherDone
    /\ text = TextRemoteWorldwide
    /\ allowed_locations = PyList(<<>>)
    /\ result = ReturnedFalse

\* C5: called with a null text or with the empty string and a non-empty
\* allow-list, the matcher returns false and raises nothing.
C5_NullOrEmptyTextIsFalse ==
    (MatcherDone /\ (text.tag = "None" \/ text = PyStr(<<>>))
       /\ allowed_locations.tag = "list" /\ allowed_locations.v # <<>>)
    => result = ReturnedFalse

\* C6: for a string text and a list of string terms the matcher returns a
\* boolean and raises nothing, and it returns true only if some lowercased
\* term occurs character for character in the lowercased text.
C6_TermsAreLiteral ==
    (MatcherDone /\ text.tag = "str" /\ allowed_locations.tag = "list") =>
        /\ result.exc = "none"
        /\ result.ret.tag = "bool"
        /\ result = ReturnedTrue =>
             \E k \in DOMAIN allowed_locations.v :
                 IsSubstring(StrLower(allowed_locations.v[k]), StrLower(text.v))

C6_Witness ==
    /\ MatcherDone
    /\ text = PyStr(<<"a", ".", "a">>)
    /\ allowed_locations = PyList(<< <<".">> >>)
    /\ result = ReturnedTrue

C8_PhraseMatchesAtOuterEdges ==
    (SingleTermCall /\ IsPhrase(allowed_locations.v[1])) =>
        /\ result.exc = "none"
        /\ result = ReturnedTrue <=>
             StandaloneOccurrence(StrLower(allowed_locations.v[1]), StrLower(text.v))

C8_Witness ==
    /\ SingleTermCall
    /\ IsPhrase(allowed_locations.v[1])
    /\ Len(text.v) > Len(allowed_locations.v[1])
    /\ \E i \in DOMAIN text.v : text.v[i] \in UpperSet
    /\ result = ReturnedTrue


\* the JSON object doc has the field key / the value of that field
JsonHas(doc, key) == doc.tag = "object" /\ \E i \in DOMAIN doc.v : doc.v[i][1] = key
JsonField(doc, key) == doc.v[CHOOSE i \in DOMAIN doc.v : doc.v[i][1] = key][2]

\* the dict {'allowed': x}
AllowedDict(x) == PyDict(<< <<"allowed", x>> >>)

\* the items of the 'allowed' list of the dict load_locations returned
ReturnedAllowedItems ==
    LET entry == DictGet(result.ret, "allowed") IN
    IF entry.tag = "ref" THEN default_locations ELSE entry.v

LocationsFileHoldsAllowed == JsonHas(files.locations, "allowed")

CompaniesFileHoldsLocationsObject ==
    /\ JsonHas(files.companies, "locations")
    /\ JsonField(files.companies, "locations").tag = "object"

CompaniesFileWithoutLocations ==
    \/ files.companies.tag \in {"absent", "garbage"}
    \/ files.companies.tag = "object" /\ ~JsonHas(files.companies, "locations")

C10_DefaultListFrozen ==
    /\ default_locations = DEFAULT_LOCATIONS_allowed
    /\ Len(default_locations) = 12
    /\ (MatcherDone /\ allowed_locations.tag = "None") =>
           result = matches_location_word_boundary(text, PyNone, DEFAULT_LOCATIONS_allowed)

====
